---- MODULE Spec2Model ----
(***************************************************************************)
(* A model of repub (src/src/repub.rs, src/src/main.rs): the table of      *)
(* contents builder (ToC, ToCItem), the manifest and spine rendering       *)
(* (Items, Item) and the container assembler (RepubBuilder).               *)
(***************************************************************************)
EXTENDS Integers, Sequences, FiniteSets, TLC

(***************************************************************************)
(* Bounds of the model.                                                    *)
(***************************************************************************)
\* longest heading sequence given to ToC::new
MaxHeadings == 4

\* longest Items.items given to to_manifest and to_spine
MaxItems == 4

\* most entries of a source directory
MaxDocs == 2

\* the heading levels the selector "h1,h2,h3,h4,h5" of toc_from_dom lets through
MaxLevel == 5

\* RepubBuilder::default: toc_level
DefaultToCLevel == 2

\* the largest value of u8, the type of toc_level
U8Max == 255

\* the most lines standard input holds
MaxLines == 3

Levels == 1..MaxLevel

VARIABLES
    headings,       \* ToC::new: the argument toc_items as it was given
    toc_items,      \* the heading records not yet consumed by ToC::new
    origin,         \* ToC::new: the local `origin`, the forest under construction
    nav,            \* the result of ToC::to_nav ({} before it ran)
    items,          \* Items.items: the manifest entries, in insertion order
    manifest,       \* the result of Items::to_manifest ({} before it ran)
    spine,          \* the result of Items::to_spine ({} before it ran)
    metadata,       \* the result of MetaData::to_xml ({} before it ran)
    pc,             \* the position of main / RepubBuilder::build
    source,         \* the input path: what is on disk at that path
    matches,        \* the ArgMatches given to RepubBuilder::new
    stdin,          \* standard input: its lines and how many of them were read
    stdout,         \* what RepubBuilder::new printed: prompts and warnings
    title,          \* RepubBuilder.title
    creator,        \* RepubBuilder.creator
    language,       \* RepubBuilder.language
    toc_level,      \* RepubBuilder.toc_level
    vertical,       \* RepubBuilder.vertical
    save_tmp_files, \* RepubBuilder.save_tmp_files
    style,          \* RepubBuilder.style: Option<PathBuf>, {} for None
    tmp_files,      \* RepubBuilder.tmp_files: three Option<PathBuf>, {} for None
    files,          \* the files of the current directory: path -> content
    dirs,           \* the directories of the current directory
    res,            \* the result of build_core: none yet, Ok, or the first error
    entries,        \* build_core: the sorted directory entries not yet visited
    archive,        \* the entries make has written to <title>.epub, in order
    archive2        \* a second run of make on the same tree: {} or {its entries}

tocVars == <<headings, toc_items, origin, nav>>

itemVars == <<items, manifest, spine, metadata>>

\* what RepubBuilder::new reads from standard input and sets besides the flags
metaVars == <<stdin, stdout, title, creator, language, toc_level>>

buildVars == <<pc, source, matches, vertical, save_tmp_files, style, tmp_files,
               files, dirs, res, entries, archive, archive2, metaVars>>

vars == <<headings, toc_items, origin, nav, items, manifest, spine, metadata, pc,
          source, matches, stdin, stdout, title, creator, language, toc_level,
          vertical, save_tmp_files, style, tmp_files, files, dirs, res, entries,
          archive, archive2>>

(***************************************************************************)
(* Sequences of length at most n over the set S.                           *)
(***************************************************************************)
SeqsUpTo(S, n) == UNION {[1..k -> S] : k \in 0..n}

Max(S) == CHOOSE x \in S : \A y \in S : y <= x

(***************************************************************************)
(* File names and paths.  A file name is a sequence of tokens: characters  *)
(* and, after a dot, whole extensions ("md", "txt", "xhtml", ...).  A path *)
(* is a sequence of file names, relative to the current directory.         *)
(***************************************************************************)
\* the stems and extensions the input names are drawn from
StemPool ==
    { <<"a">>, <<"a", " ", "b">>, <<"a", "_", "b">>, <<"a", ".", "b">> }

ExtPool == { <<>>, <<".", "md">>, <<".", "txt">> }

NamePool == {s \o e : s \in StemPool, e \in ExtPool}

\* the first byte of a token: the order std::path compares file names in
Rank(t) ==
    CASE t = " " -> 32
      [] t = "." -> 46
      [] t = "_" -> 95
      [] t = "a" -> 97
      [] t = "b" -> 98
      [] t = "md" -> 109
      [] t = "txt" -> 116
      [] OTHER -> 122

\* x < y for two file names of one directory (Ord of PathBuf)
RECURSIVE NameLess(_, _)
NameLess(x, y) ==
    IF y = <<>> THEN FALSE
    ELSE IF x = <<>> THEN TRUE
    ELSE IF Head(x) # Head(y) THEN Rank(Head(x)) < Rank(Head(y))
    ELSE NameLess(Tail(x), Tail(y))

\* the entries S in descending order of their paths
RECURSIVE SortByPath_descending(_)
SortByPath_descending(S) ==
    IF S = {} THEN <<>>
    ELSE LET m == CHOOSE x \in S : \A y \in S \ {x} : NameLess(y, x)
         IN <<m>> \o SortByPath_descending(S \ {m})

\* entries.sort_by_key(|e| e.path()) on the entries S of one directory
RECURSIVE SortByPath(_)
SortByPath(S) ==
    IF S = {} THEN <<>>
    ELSE LET m == CHOOSE x \in S : \A y \in S \ {x} : NameLess(x, y)
         IN <<m>> \o SortByPath(S \ {m})

\* the index of the last "." of a file name, 0 when it has none
LastDot(name) ==
    IF \E i \in 1..Len(name) : name[i] = "."
    THEN Max({i \in 1..Len(name) : name[i] = "."})
    ELSE 0

\* Path::file_name of a one-component path: None for "." and ".."
HasFileName(name) == name # <<>> /\ name # <<".">> /\ name # <<".", ".">>

\* Path::extension: the part after the last dot, None ({}) when the name has
\* no dot or only a leading one
Path_extension(name) ==
    IF ~HasFileName(name) \/ LastDot(name) <= 1
    THEN {}
    ELSE {SubSeq(name, LastDot(name) + 1, Len(name))}

\* Path::file_stem: the part before the last dot, the whole name when the
\* name has no dot or only a leading one
Path_file_stem(name) ==
    IF LastDot(name) <= 1
    THEN name
    ELSE SubSeq(name, 1, LastDot(name) - 1)

\* PathBuf::set_extension: nothing when the path has no file name, else the
\* stem of the name followed by the new extension
PathBuf_set_extension(name, ext) ==
    IF ~HasFileName(name)
    THEN name
    ELSE Path_file_stem(name) \o <<".", ext>>

\* str::replace(" ", "_")
ReplaceSpaces(name) ==
    [i \in 1..Len(name) |-> IF name[i] = " " THEN "_" ELSE name[i]]

\* convert: `name`, the stem of the source with its spaces replaced
ConvertName(source_name) == ReplaceSpaces(Path_file_stem(source_name))

\* convert: `xhtml_path`, PathBuf::from(name) after set_extension("xhtml")
XhtmlPath(source_name) == PathBuf_set_extension(ConvertName(source_name), "xhtml")

IsPrefix(d, p) == Len(d) <= Len(p) /\ SubSeq(p, 1, Len(d)) = d

(***************************************************************************)
(* ToCItem and ToC.  The title of a real heading is modelled by a positive *)
(* number (its position in the input), the empty title by 0.               *)
(***************************************************************************)
ToCItem_default ==
    [is_dummy |-> TRUE, filename |-> <<>>, id |-> {}, title |-> 0, level |-> 1,
     inner_items |-> <<>>]

\* toc_from_dom: the item of one heading element: is_dummy false, the name of
\* the document, the id of its anchor if it has one, the level of its tag
ToCItem_real(filename, id, text, level) ==
    [ToCItem_default EXCEPT !.is_dummy = FALSE, !.filename = filename,
                            !.id = id, !.title = text, !.level = level]

ToC_default == [inner_items |-> <<>>]

\* ToCItem::get_latest without the placeholder: a node without children is
\* returned as it is
RECURSIVE ToCItem_get_latest_nodummy(_, _)
ToCItem_get_latest_nodummy(self, level) ==
    IF level = 1 \/ Len(self.inner_items) = 0
    THEN [self |-> self, path |-> <<>>]
    ELSE LET i == Len(self.inner_items)
             r == ToCItem_get_latest_nodummy(self.inner_items[i], level - 1)
         IN [self |-> [self EXCEPT !.inner_items = [@ EXCEPT ![i] = r.self]],
             path |-> <<i>> \o r.path]

\* ToCItem::get_latest that descends into the first child
RECURSIVE ToCItem_get_latest_first(_, _)
ToCItem_get_latest_first(self, level) ==
    IF level = 1
    THEN [self |-> self, path |-> <<>>]
    ELSE LET inner_items == IF Len(self.inner_items) = 0
                            THEN Append(self.inner_items, ToCItem_default)
                            ELSE self.inner_items
             r == ToCItem_get_latest_first(inner_items[1], level - 1)
         IN [self |-> [self EXCEPT !.inner_items = [inner_items EXCEPT ![1] = r.self]],
             path |-> <<1>> \o r.path]

\* ToCItem::get_latest: `self` after the call (a placeholder is pushed where
\* a node has no child) and the path of child indices from self to the item
\* the call returns a reference to
RECURSIVE ToCItem_get_latest(_, _)
ToCItem_get_latest(self, level) ==
    IF level = 1
    THEN [self |-> self, path |-> <<>>]
    ELSE LET inner_items == IF Len(self.inner_items) = 0
                            THEN Append(self.inner_items, ToCItem_default)
                            ELSE self.inner_items
             i == Len(inner_items)
             r == ToCItem_get_latest(inner_items[i], level - 1)
         IN [self |-> [self EXCEPT !.inner_items = [inner_items EXCEPT ![i] = r.self]],
             path |-> <<i>> \o r.path]

\* ToC::get_latest that opens a new placeholder at the root on every call
ToC_get_latest_fresh(self, level) ==
    LET inner_items == Append(self.inner_items, ToCItem_default)
        i == Len(inner_items)
        r == ToCItem_get_latest(inner_items[i], level)
    IN [self |-> [self EXCEPT !.inner_items = [inner_items EXCEPT ![i] = r.self]],
        path |-> <<i>> \o r.path]

\* ToC::get_latest: the same step at the root, then ToCItem::get_latest(level)
ToC_get_latest(self, level) ==
    LET inner_items == IF Len(self.inner_items) = 0
                       THEN Append(self.inner_items, ToCItem_default)
                       ELSE self.inner_items
        i == Len(inner_items)
        r == ToCItem_get_latest(inner_items[i], level)
    IN [self |-> [self EXCEPT !.inner_items = [inner_items EXCEPT ![i] = r.self]],
        path |-> <<i>> \o r.path]

\* ToCTrait::push that inserts the item before the others
RECURSIVE ToCTrait_push_front(_, _, _)
ToCTrait_push_front(self, path, toc_item) ==
    IF path = <<>>
    THEN [self EXCEPT !.inner_items = <<toc_item>> \o @]
    ELSE [self EXCEPT !.inner_items =
             [@ EXCEPT ![Head(path)] = ToCTrait_push_front(@, Tail(path), toc_item)]]

\* ToCTrait::push that puts the item in the place of the others
RECURSIVE ToCTrait_push_replace(_, _, _)
ToCTrait_push_replace(self, path, toc_item) ==
    IF path = <<>>
    THEN [self EXCEPT !.inner_items = <<toc_item>>]
    ELSE [self EXCEPT !.inner_items =
             [@ EXCEPT ![Head(path)] = ToCTrait_push_replace(@, Tail(path), toc_item)]]

\* ToCTrait::push on the item that `path` leads to, below the node `self`
RECURSIVE ToCTrait_push(_, _, _)
ToCTrait_push(self, path, toc_item) ==
    IF path = <<>>
    THEN [self EXCEPT !.inner_items = Append(@, toc_item)]
    ELSE [self EXCEPT !.inner_items =
             [@ EXCEPT ![Head(path)] = ToCTrait_push(@, Tail(path), toc_item)]]

\* ToC::push that appends every item to the list of the root
ToC_push_top(self, toc_item, level) ==
    [self EXCEPT !.inner_items = Append(@, toc_item)]

\* ToC::push
ToC_push(self, toc_item, level) ==
    IF level = 1
    THEN [self EXCEPT !.inner_items = Append(@, toc_item)]
    ELSE LET r == ToC_get_latest(self, level - 1)
         IN ToCTrait_push(r.self, r.path, toc_item)

\* ToCItem::to_nav: the li element of a node: its title (nothing for a
\* placeholder, a link for a heading with an anchor, a span for one without)
\* and, when it has children, the ol of their li elements, hidden when the
\* level of the node is `level` or more
RECURSIVE ToCItem_to_nav(_, _)
ToCItem_to_nav(self, level) ==
    [title |-> IF self.is_dummy
               THEN [tag |-> "", href |-> <<>>, text |-> 0]
               ELSE IF self.id # {}
                    THEN [tag |-> "a",
                          href |-> <<self.filename, ".xhtml#", self.id>>,
                          text |-> self.title]
                    ELSE [tag |-> "span", href |-> <<>>, text |-> self.title],
     ol |-> IF Len(self.inner_items) = 0
            THEN {}
            ELSE {[hidden |-> self.level >= level,
                   li |-> [i \in 1..Len(self.inner_items) |->
                             ToCItem_to_nav(self.inner_items[i], level)]]}]

\* build_core: the title given to ToC::to_nav
NavigationTitle == "ToC"

\* ToC::to_nav: the title, the link of the vertical style sheet and the li
\* elements of the top-level entries
ToC_to_nav(self, level, vert, heading) ==
    [title |-> heading,
     link |-> IF vert THEN {"styles/vertical.css"} ELSE {},
     li |-> [i \in 1..Len(self.inner_items) |->
               ToCItem_to_nav(self.inner_items[i], level)]]

(***************************************************************************)
(* Measures of a forest.                                                   *)
(***************************************************************************)
RECURSIVE NodeDepth(_)
NodeDepth(node) ==
    IF Len(node.inner_items) = 0
    THEN 1
    ELSE 1 + Max({NodeDepth(node.inner_items[i]) : i \in 1..Len(node.inner_items)})

ForestDepth(toc) ==
    IF Len(toc.inner_items) = 0
    THEN 0
    ELSE Max({NodeDepth(toc.inner_items[i]) : i \in 1..Len(toc.inner_items)})

LevelsOf(hs) == {hs[i].level : i \in 1..Len(hs)}

\* ToC::new: the fold of ToC::push over toc_items
RECURSIVE ToC_new_from(_, _)
ToC_new_from(toc, rest) ==
    IF rest = <<>>
    THEN toc
    ELSE ToC_new_from(ToC_push(toc, Head(rest), Head(rest).level), Tail(rest))

ToC_new(its) == ToC_new_from(ToC_default, its)

(***************************************************************************)
(* Items and Item: the manifest and the spine of package.opf.  An element  *)
(* is a record of its attributes; an id is the pair of its text and its    *)
(* number (-1 for an id without a number).                                 *)
(***************************************************************************)
BookId(id) == <<"book_", id>>

NavigationId == <<"navigation", -1>>

\* MetaData::to_xml: the title, the language and the creator in the order
\* the metadata block takes them (the identifier and the time stamp are
\* left out)
MetaData_to_xml(self) ==
    <<[tag |-> "dc:title", text |-> self.title],
      [tag |-> "dc:language", text |-> self.language],
      [tag |-> "dc:creator", text |-> self.creator]>>

Item_default == [href |-> <<>>, media_type |-> "application/xhtml+xml"]

\* Item::to_manifest with the id of every item 0
Item_to_manifest_zero(self, id) ==
    [tag |-> "item", id |-> BookId(0), href |-> self.href,
     media_type |-> self.media_type]

\* Item::to_manifest
Item_to_manifest(self, id) ==
    [tag |-> "item", id |-> BookId(id), href |-> self.href,
     media_type |-> self.media_type]

\* Item::to_spine
Item_to_spine(self, id) == [tag |-> "itemref", idref |-> BookId(id)]

\* Items::to_manifest: the elements the loop over 0..len appends, in order
\* (the i-th item of the Vec is self[i + 1] here)
Items_to_manifest(self) ==
    [i \in 1..Len(self) |-> Item_to_manifest(self[i], i - 1)]

\* Items::to_spine: the spine element, its attribute and its itemrefs
Items_to_spine(self, vert) ==
    LET its == [i \in 1..Len(self) |-> Item_to_spine(self[i], i - 1)]
    IN [page_progression_direction |-> IF vert THEN {"rtl"} ELSE {},
        itemrefs |-> <<[tag |-> "itemref", idref |-> NavigationId]>> \o its]

(***************************************************************************)
(* The state of the parts a specification does not exercise.               *)
(***************************************************************************)
TmpFiles_default == [mimetype |-> {}, meta_inf |-> {}, oebps |-> {}]

NoFiles == [p \in {} |-> <<>>]

ResNone == <<"none", "">>

ResOk == <<"Ok", "">>

ResErr(step) == <<"Err", step>>

IdleToC ==
    /\ headings = <<>>
    /\ origin = ToC_default
    /\ nav = {}

\* RepubBuilder::default: the fields RepubBuilder::new fills from the
\* arguments or the prompts, and the standard streams before it ran
BuilderDefault ==
    /\ title = <<>>
    /\ creator = <<>>
    /\ language = <<>>
    /\ toc_level = DefaultToCLevel
    /\ stdin = [lines |-> <<>>, read |-> 0]
    /\ stdout = <<>>

IdleItems ==
    /\ manifest = {}
    /\ spine = {}
    /\ metadata = {}

IdleBuild ==
    /\ pc = "idle"
    /\ source = [kind |-> "missing", name |-> <<>>, entries |-> {}]
    /\ matches = [vertical |-> FALSE, save_tmp_files |-> FALSE, style |-> FALSE,
                  title |-> {}, creator |-> {}, language |-> {},
                  toc_level |-> {}]
    /\ BuilderDefault
    /\ save_tmp_files = FALSE
    /\ style = {}
    /\ tmp_files = TmpFiles_default
    /\ files = NoFiles
    /\ dirs = {}
    /\ res = ResNone
    /\ entries = <<>>
    /\ archive = <<>>
    /\ archive2 = {}

(***************************************************************************)
(* ToC::new as a state machine: one action per iteration of its for loop.  *)
(***************************************************************************)
\* the heading records of one document "a" with the levels lv, none anchored
HeadingRecords(lv) ==
    [i \in 1..Len(lv) |-> ToCItem_real(<<"a">>, {}, i, lv[i])]

InitToC ==
    /\ headings \in {HeadingRecords(lv) : lv \in SeqsUpTo(Levels, MaxHeadings)}
    /\ toc_items = headings
    /\ origin = ToC_default
    /\ nav = {}
    /\ items = <<>>
    /\ vertical = FALSE
    /\ IdleItems
    /\ IdleBuild

\* one iteration of `for toc_item in toc_items`
ToCNewStep ==
    /\ toc_items # <<>>
    /\ LET toc_item == Head(toc_items)
           level == toc_item.level
       IN origin' = ToC_push(origin, toc_item, level)
    /\ toc_items' = Tail(toc_items)
    /\ UNCHANGED <<headings, nav, itemVars, buildVars>>

NextToC == ToCNewStep

SpecToC == InitToC /\ [][NextToC]_vars

\* ToC::new has returned
ToCBuilt == pc = "idle" /\ toc_items = <<>>

(***************************************************************************)
(* Package::to_opf on a given Items: Init draws the entries, the action    *)
(* renders the manifest and the spine.                                     *)
(***************************************************************************)
\* the hrefs convert can give the entries
HrefPool == {XhtmlPath(n) : n \in NamePool}

ItemPool == {[Item_default EXCEPT !.href = h] : h \in HrefPool}

InitItems ==
    /\ items \in SeqsUpTo(ItemPool, MaxItems)
    /\ vertical \in BOOLEAN
    /\ IdleItems
    /\ IdleToC
    /\ toc_items = <<>>
    /\ IdleBuild

\* Package::to_opf: the manifest and the spine it formats into package.opf
ToOpf ==
    /\ pc = "idle"
    /\ manifest = {}
    /\ metadata' = {MetaData_to_xml([title |-> title, creator |-> creator,
                                      language |-> language])}
    /\ manifest' = {Items_to_manifest(items)}
    /\ spine' = {Items_to_spine(items, vertical)}
    /\ UNCHANGED <<tocVars, items, buildVars>>

NextItems == ToOpf

SpecItems == InitItems /\ [][NextItems]_vars

(***************************************************************************)
(* The working tree of RepubBuilder: dir_path is ".", so every path is     *)
(* relative to the current directory.  The title is "Book".                *)
(***************************************************************************)
mimetype_path == << <<"mimetype">> >>

meta_inf_path == << <<"META-INF">> >>

container_path == meta_inf_path \o << <<"container", ".", "xml">> >>

oebps_path == << <<"OEBPS">> >>

styles_path == oebps_path \o << <<"styles">> >>

vertical_css_path == styles_path \o << <<"vertical", ".", "css">> >>

custom_css_path == styles_path \o << <<"custom", ".", "css">> >>

package_opf_path == oebps_path \o << <<"package", ".", "opf">> >>

navigation_path == oebps_path \o << <<"navigation", ".", "xhtml">> >>

epub_path == << <<"Book", ".", "epub">> >>

\* the content of a file: a created file nothing was written to is empty
Empty == <<>>

Literal(name) == <<"literals", name>>

\* the archive of an earlier build, and the one File::create of make opened
OldEpub == <<"epub", "old">>

NewEpub == <<"epub", "new">>

\* File::create and write_all: the file p holds c afterwards
WriteFile(f, p, c) == [q \in DOMAIN f \cup {p} |-> IF q = p THEN c ELSE f[q]]

\* std::fs::remove_file
RemoveFile(f, p) == [q \in DOMAIN f \ {p} |-> f[q]]

\* the files directly in the directory d (read_dir, then path.is_file())
FilesIn(f, d) == {q \in DOMAIN f : Len(q) = Len(d) + 1 /\ IsPrefix(d, q)}

\* the orders read_dir can return the set S in: the order of a directory
\* listing is platform and filesystem dependent
Orders(S) ==
    {o \in [1..Cardinality(S) -> S] : \A i, j \in DOMAIN o : o[i] = o[j] => i = j}

(***************************************************************************)
(* RepubBuilder::new and main.                                             *)
(***************************************************************************)
\* the path given with --css, joined to the current directory
StylePath == << <<"my", ".", "css">> >>

\* RepubBuilder::new with only the check that the path exists
InvalidInputPath_exists_only(src) == src.kind = "missing"

\* RepubBuilder::new: the two early returns: the path does not exist, or it
\* is a file with an extension other than md
InvalidInputPath(src) ==
    \/ src.kind = "missing"
    \/ /\ src.kind = "file"
       /\ \E ext \in Path_extension(src.name) : ext # <<"md">>

Whitespace == {" ", "\n"}

RECURSIVE TrimStart(_)
TrimStart(s) ==
    IF s # <<>> /\ Head(s) \in Whitespace THEN TrimStart(Tail(s)) ELSE s

RECURSIVE TrimEnd(_)
TrimEnd(s) ==
    IF s # <<>> /\ s[Len(s)] \in Whitespace
    THEN TrimEnd(SubSeq(s, 1, Len(s) - 1))
    ELSE s

\* str::trim: the string without its leading and trailing whitespace
str_trim(s) == TrimEnd(TrimStart(s))

\* Stdin::read_line for the k-th read: the next line, or nothing at the end
\* of the input
read_line(in, k) ==
    IF in.read + k <= Len(in.lines) THEN in.lines[in.read + k] ELSE <<>>

DigitChars == <<"0", "1", "2", "3", "4", "5", "6", "7", "8", "9">>

DigitValue(c) == (CHOOSE i \in 1..10 : DigitChars[i] = c) - 1

IsDigit(c) == \E i \in 1..10 : DigitChars[i] = c

RECURSIVE DecimalValue(_)
DecimalValue(ds) ==
    IF ds = <<>> THEN 0
    ELSE 10 * DecimalValue(SubSeq(ds, 1, Len(ds) - 1)) + DigitValue(ds[Len(ds)])

\* str::parse::<u8>: an optional plus sign and one decimal digit or more, of
\* a value up to u8::MAX; {} is Err
parse_u8(level) ==
    LET digits == IF level # <<>> /\ Head(level) = "+" THEN Tail(level) ELSE level
    IN IF digits = <<>> \/ \E i \in 1..Len(digits) : ~IsDigit(digits[i])
       THEN {}
       ELSE IF DecimalValue(digits) > U8Max THEN {} ELSE {DecimalValue(digits)}

\* `a - b` on u8 that stores the default on an underflow
u8_sub_saturating_default(a, b) ==
    IF a >= b THEN {[panic |-> FALSE, value |-> a - b]}
    ELSE {[panic |-> FALSE, value |-> DefaultToCLevel]}

\* `a - b` on u8: an underflow panics in a build with overflow checks and
\* wraps in a build without
u8_sub(a, b) ==
    IF a >= b THEN {[panic |-> FALSE, value |-> a - b]}
    ELSE {[panic |-> TRUE, value |-> 0],
          [panic |-> FALSE, value |-> (a - b) % (U8Max + 1)]}

\* RepubBuilder::new: the fields it prompts for, in the order of the prompts
Prompts ==
    SelectSeq(<<"title", "creator", "language">>,
              LAMBDA f : matches[f] = {})

PromptText(f) ==
    CASE f = "title" -> "Title: "
      [] f = "creator" -> "Creator: "
      [] f = "language" -> "Language: "

\* the first n prompts as printed
Printed(n) == [i \in 1..n |-> PromptText(Prompts[i])]

\* the trimmed line read after the prompt for the field f
Prompted(f) ==
    LET k == CHOOSE i \in 1..Len(Prompts) : Prompts[i] = f
    IN str_trim(read_line(stdin, k))

\* RepubBuilder::new: toc_level, the outcomes of its match on the parse
new_toc_level ==
    IF matches.toc_level = {}
    THEN {[panic |-> FALSE, value |-> toc_level, warned |-> FALSE]}
    ELSE LET level == CHOOSE l \in matches.toc_level : TRUE
         IN IF parse_u8(level) = {}
            THEN {[panic |-> FALSE, value |-> 2, warned |-> TRUE]}
            ELSE LET ok == CHOOSE v \in parse_u8(level) : TRUE
                 IN {[panic |-> r.panic, value |-> r.value, warned |-> FALSE] :
                        r \in u8_sub(ok, 1)}

\* main: RepubBuilder::new, and on Ok the call of build
New ==
    /\ pc = "new"
    /\ IF InvalidInputPath(source)
       THEN /\ pc' = "exit"
            /\ res' = ResErr("new")
            /\ UNCHANGED <<vertical, save_tmp_files, style, metaVars>>
       ELSE \/ \* a flush of the k-th prompt fails: `?` returns the error
               \E k \in 1..Len(Prompts) :
                /\ pc' = "exit"
                /\ res' = ResErr("new")
                /\ stdin' = [stdin EXCEPT !.read = stdin.read + (k - 1)]
                /\ stdout' = stdout \o Printed(k - 1)
                /\ UNCHANGED <<vertical, save_tmp_files, style, title, creator,
                               language, toc_level>>
            \/ \* the k-th read_line fails: expect panics
               \E k \in 1..Len(Prompts) :
                /\ pc' = "panicked"
                /\ res' = res
                /\ stdin' = [stdin EXCEPT !.read = stdin.read + (k - 1)]
                /\ stdout' = stdout \o Printed(k)
                /\ UNCHANGED <<vertical, save_tmp_files, style, title, creator,
                               language, toc_level>>
            \/ \E t \in new_toc_level :
                /\ stdin' = [stdin EXCEPT !.read = stdin.read + Len(Prompts)]
                /\ stdout' = stdout \o Printed(Len(Prompts))
                              \o (IF t.warned THEN <<"Warning">> ELSE <<>>)
                /\ res' = res
                /\ IF t.panic
                   THEN /\ pc' = "panicked"
                        /\ UNCHANGED <<vertical, save_tmp_files, style, title,
                                       creator, language, toc_level>>
                   ELSE /\ pc' = "add_mimetype"
                        /\ vertical' = matches.vertical
                        /\ save_tmp_files' = matches.save_tmp_files
                        /\ title' = IF matches.title # {}
                                    THEN CHOOSE x \in matches.title : TRUE
                                    ELSE Prompted("title")
                        /\ creator' = IF matches.creator = {}
                                      THEN Prompted("creator")
                                      ELSE creator
                        /\ language' = IF matches.language = {}
                                       THEN Prompted("language")
                                       ELSE language
                        /\ style' = IF matches.style THEN {StylePath} ELSE {}
                        /\ toc_level' = t.value
    /\ UNCHANGED <<tocVars, itemVars, source, matches, tmp_files, files, dirs,
                   entries, archive, archive2>>

(***************************************************************************)
(* RepubBuilder::build_core, one action per step.  Every call that can     *)
(* return an error does so or succeeds; `?` returns the first error.       *)
(***************************************************************************)
\* an Err that is recorded while the step is tried again
Failed_retry(step) ==
    /\ pc' = pc
    /\ res' = ResErr(step)

\* `?` on an Err: build_core returns it to build
Failed(step) ==
    /\ pc' = "cleanup"
    /\ res' = ResErr(step)

\* RepubBuilder::add_mimetype
add_mimetype ==
    /\ pc = "add_mimetype"
    /\ \E o \in {"create_err", "write_err", "ok"} :
        /\ files' = IF o = "create_err"
                    THEN files
                    ELSE WriteFile(files, mimetype_path,
                                   IF o = "ok" THEN Literal("mimetype") ELSE Empty)
        /\ tmp_files' = IF o = "ok"
                        THEN [tmp_files EXCEPT !.mimetype = {mimetype_path}]
                        ELSE tmp_files
        /\ IF o = "ok"
           THEN pc' = "add_meta_inf" /\ res' = res
           ELSE Failed("add_mimetype")
    /\ UNCHANGED <<tocVars, itemVars, source, matches, metaVars, vertical,
                   save_tmp_files, style, dirs, entries, archive, archive2>>

\* RepubBuilder::add_meta_inf
add_meta_inf ==
    /\ pc = "add_meta_inf"
    /\ \E o \in {"mkdir_err", "create_err", "write_err", "ok"} :
        /\ dirs' = IF o = "mkdir_err" THEN dirs ELSE dirs \cup {meta_inf_path}
        /\ files' = IF o \in {"mkdir_err", "create_err"}
                    THEN files
                    ELSE WriteFile(files, container_path,
                                   IF o = "ok" THEN Literal("container.xml") ELSE Empty)
        /\ tmp_files' = IF o = "ok"
                        THEN [tmp_files EXCEPT !.meta_inf = {meta_inf_path}]
                        ELSE tmp_files
        /\ IF o = "ok"
           THEN pc' = "add_oebps" /\ res' = res
           ELSE Failed("add_meta_inf")
    /\ UNCHANGED <<tocVars, itemVars, source, matches, metaVars, vertical,
                   save_tmp_files, style, entries, archive, archive2>>

\* RepubBuilder::add_oebps, and the match on tmp_files that follows it
add_oebps ==
    /\ pc = "add_oebps"
    /\ \E o \in {"mkdir_oebps_err", "mkdir_styles_err", "create_vertical_err",
                 "write_vertical_err", "create_custom_err", "ok"} :
        /\ dirs' = CASE o = "mkdir_oebps_err" -> dirs
                     [] o = "mkdir_styles_err" -> dirs \cup {oebps_path}
                     [] OTHER -> dirs \cup {oebps_path, styles_path}
        /\ files' = CASE o \in {"mkdir_oebps_err", "mkdir_styles_err",
                                "create_vertical_err"} -> files
                      [] o = "write_vertical_err" ->
                            WriteFile(files, vertical_css_path, Empty)
                      [] o = "create_custom_err" ->
                            WriteFile(files, vertical_css_path, Literal("vertical.css"))
                      [] OTHER ->
                            WriteFile(WriteFile(files, vertical_css_path,
                                                Literal("vertical.css")),
                                      custom_css_path, Empty)
        /\ tmp_files' = IF o = "ok"
                        THEN [tmp_files EXCEPT !.oebps = {oebps_path}]
                        ELSE tmp_files
        /\ IF o # "ok"
           THEN Failed("add_oebps")
           ELSE IF /\ tmp_files'.mimetype # {}
                   /\ tmp_files'.meta_inf # {}
                   /\ tmp_files'.oebps # {}
                THEN pc' = "style" /\ res' = res
                ELSE Failed("file error")
    /\ UNCHANGED <<tocVars, itemVars, source, matches, metaVars, vertical,
                   save_tmp_files, style, entries, archive, archive2>>

\* build_core: the copy of the caller's stylesheet into custom.css
copy_style ==
    /\ pc = "style"
    /\ IF style = {}
       THEN /\ pc' = "convert"
            /\ UNCHANGED <<files, res>>
       ELSE \E o \in {"open_err", "create_err", "write_err", "ok"} :
            /\ files' = CASE o \in {"open_err", "create_err"} -> files
                          [] o = "write_err" -> WriteFile(files, custom_css_path, Empty)
                          [] OTHER -> WriteFile(files, custom_css_path, <<"style">>)
            /\ IF o = "ok"
               THEN pc' = "convert" /\ res' = res
               ELSE Failed("style")
    /\ UNCHANGED <<tocVars, itemVars, source, matches, metaVars, vertical,
                   save_tmp_files, style, tmp_files, dirs, entries, archive,
                   archive2>>

\* toc_from_dom: the heading records of one converted document.  Every
\* document of the model holds one h1 heading with an anchor.
toc_from_dom(filename, seen) ==
    <<ToCItem_real(filename, {<<"header-">>}, seen + 1, 1)>>

\* the content convert writes to <stem>.xhtml: the template with the name
\* of the source file and its html
Xhtml(source_name) == <<"xhtml">> \o source_name

\* convert(source_name): what it leaves behind for each of its outcomes
Convert(source_name, o) ==
    LET name == ConvertName(source_name)
        xhtml_path == XhtmlPath(source_name)
        xhtml_file_path == oebps_path \o <<xhtml_path>>
    IN /\ o \in {"create_err", "write_err", "ok"} =>
              toc_items' = toc_items \o toc_from_dom(name, Len(toc_items))
       /\ o = "open_err" => toc_items' = toc_items
       /\ o \in {"write_err", "ok"} => HasFileName(xhtml_path)
       /\ files' = CASE o \in {"open_err", "create_err"} -> files
                     [] o = "write_err" -> WriteFile(files, xhtml_file_path, Empty)
                     [] OTHER -> WriteFile(files, xhtml_file_path, Xhtml(source_name))
       /\ items' = IF o = "ok"
                   THEN Append(items, [Item_default EXCEPT !.href = xhtml_path])
                   ELSE items

ConvertOutcomes == {"open_err", "create_err", "write_err", "ok"}

\* build_core: the source is a file: convert it
convert_file ==
    /\ pc = "convert"
    /\ source.kind = "file"
    /\ \E o \in ConvertOutcomes :
        /\ Convert(source.name, o)
        /\ IF o = "ok"
           THEN pc' = "package_opf" /\ res' = res
           ELSE Failed("convert")
    /\ UNCHANGED <<headings, origin, nav, manifest, spine, metadata, source,
                   matches, metaVars, vertical, save_tmp_files, style,
                   tmp_files, dirs, entries, archive, archive2>>

\* build_core: the source is a directory: read_dir, unwrap of every entry,
\* sort_by_key.  The unwrap of an entry that is an error panics.
read_dir ==
    /\ pc = "convert"
    /\ source.kind = "dir"
    /\ \E o \in {"read_dir_err", "entry_err", "ok"} :
        /\ entries' = IF o = "ok" THEN SortByPath(source.entries) ELSE entries
        /\ CASE o = "read_dir_err" -> Failed("read_dir")
             [] o = "entry_err" -> pc' = "panicked" /\ res' = res
             [] OTHER -> /\ pc' = IF source.entries = {}
                                  THEN "package_opf"
                                  ELSE "convert_loop"
                         /\ res' = res
    /\ UNCHANGED <<tocVars, itemVars, source, matches, metaVars, vertical,
                   save_tmp_files, style, tmp_files, files, dirs, archive,
                   archive2>>

\* build_core: one iteration of `for entry in entries`: convert the entry if
\* its extension is md
convert_entry ==
    /\ pc = "convert_loop"
    /\ entries # <<>>
    /\ entries' = Tail(entries)
    /\ LET path == Head(entries)
       IN IF Path_extension(path) = {<<"md">>}
          THEN \E o \in ConvertOutcomes :
                /\ Convert(path, o)
                /\ IF o # "ok"
                   THEN Failed("convert")
                   ELSE /\ pc' = IF Tail(entries) = <<>>
                                 THEN "package_opf"
                                 ELSE "convert_loop"
                        /\ res' = res
          ELSE /\ pc' = IF Tail(entries) = <<>> THEN "package_opf" ELSE "convert_loop"
               /\ UNCHANGED <<toc_items, files, items, res>>
    /\ UNCHANGED <<headings, origin, nav, manifest, spine, metadata, source,
                   matches, metaVars, vertical, save_tmp_files, style,
                   tmp_files, dirs, archive, archive2>>

\* build_core: File::create of package.opf and the write of Package::to_opf
package_opf ==
    /\ pc = "package_opf"
    /\ \E o \in {"create_err", "write_err", "ok"} :
        /\ files' = CASE o = "create_err" -> files
                      [] o = "write_err" -> WriteFile(files, package_opf_path, Empty)
                      [] OTHER -> WriteFile(files, package_opf_path, <<"package.opf">>)
        /\ metadata' = IF o = "ok"
                       THEN {MetaData_to_xml([title |-> title, creator |-> creator,
                                              language |-> language])}
                       ELSE metadata
        /\ manifest' = IF o = "ok" THEN {Items_to_manifest(items)} ELSE manifest
        /\ spine' = IF o = "ok" THEN {Items_to_spine(items, vertical)} ELSE spine
        /\ IF o = "ok"
           THEN pc' = "navigation" /\ res' = res
           ELSE Failed("package_opf")
    /\ UNCHANGED <<tocVars, items, source, matches, metaVars, vertical,
                   save_tmp_files, style, tmp_files, dirs, entries, archive,
                   archive2>>

\* build_core: File::create of navigation.xhtml, ToC::new(toc_items) and the
\* write of ToC::to_nav
navigation ==
    /\ pc = "navigation"
    /\ \E o \in {"create_err", "write_err", "ok"} :
        /\ files' = CASE o = "create_err" -> files
                      [] o = "write_err" -> WriteFile(files, navigation_path, Empty)
                      [] OTHER -> WriteFile(files, navigation_path, <<"navigation">>)
        /\ IF o = "create_err"
           THEN UNCHANGED <<headings, toc_items, origin, nav>>
           ELSE /\ headings' = toc_items
                /\ toc_items' = <<>>
                /\ origin' = ToC_new(toc_items)
                /\ nav' = {ToC_to_nav(ToC_new(toc_items), toc_level, vertical,
                                      NavigationTitle)}
        /\ IF o = "ok"
           THEN pc' = "make" /\ res' = res
           ELSE Failed("navigation")
    /\ UNCHANGED <<itemVars, source, matches, metaVars, vertical,
                   save_tmp_files, style, tmp_files, dirs, entries, archive,
                   archive2>>

(***************************************************************************)
(* RepubBuilder::make.  An entry of the archive is its name, the           *)
(* compression method the FileOptions of the call ask for, and whether it  *)
(* is a directory entry.                                                   *)
(***************************************************************************)
\* make: `let method = CompressionMethod::Deflated`
method == "Deflated"

\* FileOptions::default(): Deflated, the default of the zip crate built with
\* the deflate feature that CompressionMethod::Deflated of make needs
FileOptions_default == "Deflated"

FileEntry(path, m) == [name |-> path, compression_method |-> m, is_dir |-> FALSE]

DirEntry(path, m) == [name |-> path, compression_method |-> m, is_dir |-> TRUE]

FileEntries(order, m) == [i \in 1..Len(order) |-> FileEntry(order[i], m)]

\* make with the mimetype entry deflated like the others
make_entries_deflated(mimetype, meta_inf, oebps, in_meta_inf, in_oebps, in_styles) ==
    <<FileEntry(mimetype, method)>>
    \o <<DirEntry(meta_inf, method)>> \o FileEntries(in_meta_inf, method)
    \o <<DirEntry(oebps, method)>> \o FileEntries(in_oebps, FileOptions_default)
    \o <<DirEntry(oebps \o << <<"styles">> >>, method)>>
    \o FileEntries(in_styles, FileOptions_default)

\* make with the files of OEBPS written before the entry of OEBPS itself
make_entries_files_first(mimetype, meta_inf, oebps, in_meta_inf, in_oebps, in_styles) ==
    <<FileEntry(mimetype, "Stored")>>
    \o <<DirEntry(meta_inf, method)>> \o FileEntries(in_meta_inf, method)
    \o FileEntries(in_oebps, FileOptions_default) \o <<DirEntry(oebps, method)>>
    \o <<DirEntry(oebps \o << <<"styles">> >>, method)>>
    \o FileEntries(in_styles, FileOptions_default)

\* make: the entries it writes, in order, when the three listings return the
\* files in the orders in_meta_inf, in_oebps and in_styles
make_entries(mimetype, meta_inf, oebps, in_meta_inf, in_oebps, in_styles) ==
    <<FileEntry(mimetype, "Stored")>>
    \o <<DirEntry(meta_inf, method)>> \o FileEntries(in_meta_inf, method)
    \o <<DirEntry(oebps, method)>> \o FileEntries(in_oebps, FileOptions_default)
    \o <<DirEntry(oebps \o << <<"styles">> >>, method)>>
    \o FileEntries(in_styles, FileOptions_default)

\* make on the files f: every way it can end.  File::create of the archive
\* fails and remove_file fails too; or remove_file succeeds and the second
\* File::create fails; or the archive is opened, and then any prefix of the
\* entries is written before an error, or all of them and finish succeeds.
\* make that returns Ok without creating the archive
make_runs_unopened(f, mimetype, meta_inf, oebps) ==
    {[files |-> f, archive |-> <<>>, res |-> ResOk]}

make_runs(f, mimetype, meta_inf, oebps) ==
    LET opened == WriteFile(f, epub_path, NewEpub)
        lists == {make_entries(mimetype, meta_inf, oebps, om, oo, os) :
                    om \in Orders(FilesIn(f, meta_inf)),
                    oo \in Orders(FilesIn(f, oebps)),
                    os \in Orders(FilesIn(f, oebps \o << <<"styles">> >>))}
        written == UNION {
            {[files |-> opened, archive |-> SubSeq(L, 1, k), res |-> ResErr("make")] :
                k \in 0..Len(L)}
            \cup {[files |-> opened, archive |-> L, res |-> ResOk]} : L \in lists}
        not_opened ==
            {[files |-> f, archive |-> <<>>, res |-> ResErr("make")]}
            \cup (IF epub_path \in DOMAIN f
                  THEN {[files |-> RemoveFile(f, epub_path), archive |-> <<>>,
                         res |-> ResErr("make")]}
                  ELSE {})
    IN written \cup not_opened

\* build_core: self.make(...)?, then Ok(())
make ==
    /\ pc = "make"
    /\ \E mimetype \in tmp_files.mimetype, meta_inf \in tmp_files.meta_inf,
          oebps \in tmp_files.oebps :
        \E r \in make_runs(files, mimetype, meta_inf, oebps) :
            /\ files' = r.files
            /\ archive' = r.archive
            /\ res' = r.res
    /\ pc' = "cleanup"
    /\ UNCHANGED <<tocVars, itemVars, source, matches, metaVars, vertical,
                   save_tmp_files, style, tmp_files, dirs, entries, archive2>>

\* the target archive is removed and make runs a second time on the tree the
\* first run packed; the second run is followed when it completes too
make_again ==
    /\ pc = "cleanup"
    /\ res = ResOk
    /\ archive2 = {}
    /\ \E mimetype \in tmp_files.mimetype, meta_inf \in tmp_files.meta_inf,
          oebps \in tmp_files.oebps :
        \E r \in make_runs(RemoveFile(files, epub_path), mimetype, meta_inf, oebps) :
            /\ r.res = ResOk
            /\ files' = r.files
            /\ archive2' = {r.archive}
    /\ UNCHANGED <<tocVars, itemVars, pc, source, matches, metaVars, vertical,
                   save_tmp_files, style, tmp_files, dirs, res, entries, archive>>

(***************************************************************************)
(* RepubBuilder::build after build_core, and remove_tmp_files.  The three  *)
(* removals are taken to succeed: their results are dropped.               *)
(***************************************************************************)
\* remove_tmp_files that removes the archive with the tree
remove_tmp_files_and_archive(f, ds, tf) ==
    LET f1 == [q \in DOMAIN f \ (tf.mimetype \cup {epub_path}) |-> f[q]]
        gone(x) == \E d \in tf.meta_inf \cup tf.oebps : IsPrefix(d, x)
    IN [files |-> [q \in {x \in DOMAIN f1 : ~gone(x)} |-> f1[q]],
        dirs |-> {x \in ds : ~gone(x)}]

\* remove_tmp_files that forgets the OEBPS tree
remove_tmp_files_keep_oebps(f, ds, tf) ==
    LET f1 == [q \in DOMAIN f \ tf.mimetype |-> f[q]]
        gone(x) == \E d \in tf.meta_inf : IsPrefix(d, x)
    IN [files |-> [q \in {x \in DOMAIN f1 : ~gone(x)} |-> f1[q]],
        dirs |-> {x \in ds : ~gone(x)}]

\* remove_tmp_files: remove_file of mimetype, remove_dir_all of meta_inf and of
\* oebps, each only if its path was recorded in tmp_files
remove_tmp_files(f, ds, tf) ==
    LET f1 == [q \in DOMAIN f \ tf.mimetype |-> f[q]]
        gone(x) == \E d \in tf.meta_inf \cup tf.oebps : IsPrefix(d, x)
    IN [files |-> [q \in {x \in DOMAIN f1 : ~gone(x)} |-> f1[q]],
        dirs |-> {x \in ds : ~gone(x)}]

\* build that removes the temporary files whatever save_tmp_files says
build_cleanup_always(save, f, ds, tf) == remove_tmp_files(f, ds, tf)

\* build: `if !self.save_tmp_files { self.remove_tmp_files(); }`
build_cleanup(save, f, ds, tf) ==
    IF ~save
    THEN remove_tmp_files(f, ds, tf)
    ELSE [files |-> f, dirs |-> ds]

\* build: what follows build_core: the cleanup, then `res` is returned
build_return ==
    /\ pc = "cleanup"
    /\ LET r == build_cleanup(save_tmp_files, files, dirs, tmp_files)
       IN /\ files' = r.files
          /\ dirs' = r.dirs
    /\ pc' = "done"
    /\ UNCHANGED <<tocVars, itemVars, source, matches, metaVars, vertical,
                   save_tmp_files, style, tmp_files, res, entries, archive,
                   archive2>>

(***************************************************************************)
(* One run of the program.                                                 *)
(***************************************************************************)
\* what the input path can name: nothing, a file, or a directory of at most
\* MaxDocs entries
Sources ==
    {[kind |-> "missing", name |-> <<"docs">>, entries |-> {}]}
    \cup {[kind |-> "file", name |-> n, entries |-> {}] : n \in NamePool}
    \cup {[kind |-> "dir", name |-> <<"docs">>, entries |-> E] :
            E \in {X \in SUBSET NamePool : Cardinality(X) <= MaxDocs}}

InitBuild ==
    /\ pc = "new"
    /\ source \in Sources
    /\ matches \in [vertical : BOOLEAN, save_tmp_files : BOOLEAN, style : BOOLEAN,
                    title : {{<<"Book">>}}, creator : {{<<"A">>}},
                    language : {{<<"en">>}}, toc_level : {{}}]
    /\ BuilderDefault
    /\ vertical = FALSE
    /\ save_tmp_files = FALSE
    /\ style = {}
    /\ tmp_files = TmpFiles_default
    /\ files \in {NoFiles, WriteFile(NoFiles, epub_path, OldEpub)}
    /\ dirs = {}
    /\ res = ResNone
    /\ entries = <<>>
    /\ archive = <<>>
    /\ archive2 = {}
    /\ items = <<>>
    /\ toc_items = <<>>
    /\ IdleItems
    /\ IdleToC

NextBuild ==
    \/ New
    \/ add_mimetype
    \/ add_meta_inf
    \/ add_oebps
    \/ copy_style
    \/ convert_file
    \/ read_dir
    \/ convert_entry
    \/ package_opf
    \/ navigation
    \/ make
    \/ build_return

SpecBuild == InitBuild /\ [][NextBuild]_vars

(***************************************************************************)
(* RepubBuilder::new alone, on the arguments and the input it can be given *)
(***************************************************************************)
\* the values --title, --creator and --language are given
TitlePool == {<<"T">>, <<" ", "T">>}
CreatorPool == {<<"C">>}
LanguagePool == {<<"en">>}

\* the values --toc-level is given
ToCLevelPool ==
    {<<"a">>, <<>>, <<"-", "1">>, <<"0">>, <<"1">>, <<"2">>, <<"+", "3">>,
     <<"2", "5", "5">>, <<"2", "5", "6">>}

\* the lines of standard input
LinePool == {<<" ", "x", " ", "\n">>, <<"y", "\n">>}

Option(S) == {{}} \cup {{x} : x \in S}

InitNew ==
    /\ pc = "new"
    /\ source \in {[kind |-> "missing", name |-> <<"docs">>, entries |-> {}],
                   [kind |-> "file", name |-> <<"a", ".", "md">>, entries |-> {}]}
    /\ matches \in [vertical : {FALSE}, save_tmp_files : {FALSE}, style : {FALSE},
                    title : Option(TitlePool), creator : Option(CreatorPool),
                    language : Option(LanguagePool),
                    toc_level : Option(ToCLevelPool)]
    /\ title = <<>>
    /\ creator = <<>>
    /\ language = <<>>
    /\ toc_level = DefaultToCLevel
    /\ stdin \in {[lines |-> l, read |-> 0] : l \in SeqsUpTo(LinePool, MaxLines)}
    /\ stdout = <<>>
    /\ vertical = FALSE
    /\ save_tmp_files = FALSE
    /\ style = {}
    /\ tmp_files = TmpFiles_default
    /\ files = NoFiles
    /\ dirs = {}
    /\ res = ResNone
    /\ entries = <<>>
    /\ archive = <<>>
    /\ archive2 = {}
    /\ items = <<>>
    /\ toc_items = <<>>
    /\ IdleItems
    /\ IdleToC

NextNew == New

SpecNew == InitNew /\ [][NextNew]_vars

(***************************************************************************)
(* ToC::to_nav on the builder RepubBuilder::new returns: Init draws the    *)
(* --toc-level argument and the heading records the conversion hands to    *)
(* ToC::new, the actions are new and the rendering of the navigation.      *)
(***************************************************************************)
\* heading records of one document "a" with the levels lv; every second one
\* has an anchor
AnchoredRecords(lv) ==
    [i \in 1..Len(lv) |->
        ToCItem_real(<<"a">>, IF i % 2 = 0 THEN {<<"header-", i>>} ELSE {},
                     i, lv[i])]

InitNav ==
    /\ pc = "new"
    /\ source = [kind |-> "file", name |-> <<"a", ".", "md">>, entries |-> {}]
    /\ matches \in [vertical : BOOLEAN, save_tmp_files : {FALSE}, style : {FALSE},
                    title : {{<<"Book">>}}, creator : {{<<"A">>}},
                    language : {{<<"en">>}},
                    toc_level : Option(ToCLevelPool)]
    /\ BuilderDefault
    /\ toc_items \in {AnchoredRecords(lv) : lv \in SeqsUpTo(Levels, MaxHeadings)}
    /\ vertical = FALSE
    /\ save_tmp_files = FALSE
    /\ style = {}
    /\ tmp_files = TmpFiles_default
    /\ files = NoFiles
    /\ dirs = {}
    /\ res = ResNone
    /\ entries = <<>>
    /\ archive = <<>>
    /\ archive2 = {}
    /\ items = <<>>
    /\ IdleItems
    /\ IdleToC

\* build_core: ToC::new(toc_items) and ToC::to_nav with the toc_level and
\* the vertical flag of the builder
ToNav ==
    /\ pc = "add_mimetype"
    /\ nav = {}
    /\ headings' = toc_items
    /\ toc_items' = <<>>
    /\ origin' = ToC_new(toc_items)
    /\ nav' = {ToC_to_nav(ToC_new(toc_items), toc_level, vertical,
                          NavigationTitle)}
    /\ UNCHANGED <<itemVars, buildVars>>

NextNav ==
    \/ New
    \/ ToNav

SpecNav == InitNav /\ [][NextNav]_vars

NextPack ==
    \/ NextBuild
    \/ make_again

SpecPack == InitBuild /\ [][NextPack]_vars

(***************************************************************************)
(* Claims about ToC::new (checked under SpecToC).                          *)
(***************************************************************************)
\* the headings the for loop has consumed so far
Consumed == SubSeq(headings, 1, Len(headings) - Len(toc_items))

MaxLevelOf(hs) == IF hs = <<>> THEN 0 ELSE Max(LevelsOf(hs))

Returned == pc = "done"

\* build_core returned an error of one of the steps S
FailedIn(S) == res[1] = "Err" /\ res[2] \in S

\* nothing of the working tree exists
TreeGone ==
    /\ mimetype_path \notin DOMAIN files
    /\ \A p \in DOMAIN files \cup dirs :
        ~IsPrefix(meta_inf_path, p) /\ ~IsPrefix(oebps_path, p)

\* the archive is not of this build: there is none, or the one of an earlier build
NoNewEpub == \A p \in DOMAIN files : p = epub_path => files[p] = OldEpub

\* C2: a build that fails in the conversion step, without retention, has
\* returned: mimetype, META-INF and OEBPS are gone, the result is the error,
\* and this build has written no archive.
C2_ConversionFailureCleaned ==
    (Returned /\ ~save_tmp_files /\ FailedIn({"convert", "read_dir"}))
        => (TreeGone /\ res[1] = "Err" /\ NoNewEpub /\ archive = <<>>)

\* C2 witness: the second document of a directory failed after the first was
\* written, and the build has returned with the tree removed
C2_Witness ==
    /\ Returned
    /\ ~save_tmp_files
    /\ res = ResErr("convert")
    /\ Len(items) = 1
    /\ TreeGone

\* C3: a build that fails anywhere inside add_mimetype, add_meta_inf or
\* add_oebps, without retention, has returned: no mimetype file, META-INF
\* directory or OEBPS directory is left behind.
C3_LayoutFailureCleaned ==
    (Returned /\ ~save_tmp_files
        /\ FailedIn({"add_mimetype", "add_meta_inf", "add_oebps"}))
        => TreeGone

\* C4: in every archive make writes, complete or not, the first entry is the
\* mimetype file with the stored method, and no later entry is the mimetype.
C4_MimetypeFirstStored ==
    archive # <<>> =>
        /\ archive[1] = FileEntry(mimetype_path, "Stored")
        /\ \A i \in 2..Len(archive) : archive[i].name # mimetype_path

\* C4 witness: a build has succeeded and its archive holds every entry
C4_Witness ==
    /\ Returned
    /\ res = ResOk
    /\ Len(archive) >= 8
    /\ archive[1].name = mimetype_path

\* C5: after to_manifest and to_spine on n entries: the manifest holds n
\* items book_0..book_(n-1) with the hrefs in insertion order, the spine the
\* navigation itemref and then book_0..book_(n-1), every content idref is
\* the id of exactly one item, and vertical only sets the direction.
C5_ManifestSpineAgree ==
    \A m \in manifest, sp \in spine :
        /\ Len(m) = Len(items)
        /\ \A i \in 1..Len(items) :
            m[i].id = BookId(i - 1) /\ m[i].href = items[i].href
        /\ Len(sp.itemrefs) = Len(items) + 1
        /\ sp.itemrefs[1].idref = NavigationId
        /\ \A i \in 1..Len(items) : sp.itemrefs[i + 1].idref = BookId(i - 1)
        /\ \A k \in 2..Len(sp.itemrefs) :
            Cardinality({j \in 1..Len(m) : m[j].id = sp.itemrefs[k].idref}) = 1
        /\ sp.page_progression_direction = (IF vertical THEN {"rtl"} ELSE {})
        /\ sp.itemrefs = Items_to_spine(items, ~vertical).itemrefs

\* C5 witness: three entries or more, two of them with the same href, were rendered
\* in vertical mode
C5_Witness ==
    /\ manifest # {}
    /\ spine # {}
    /\ vertical
    /\ Len(items) >= 3
    /\ items[1].href = items[3].href

\* the place of an entry in the order of C6
Phase(e) ==
    CASE e.name = mimetype_path -> 0
      [] e.name = meta_inf_path -> 1
      [] Len(e.name) = 2 /\ IsPrefix(meta_inf_path, e.name) -> 2
      [] e.name = oebps_path -> 3
      [] e.name = styles_path -> 5
      [] Len(e.name) = 2 /\ IsPrefix(oebps_path, e.name) -> 4
      [] Len(e.name) = 3 /\ IsPrefix(styles_path, e.name) -> 6
      [] OTHER -> 7

\* C6: in every archive make writes, every file entry but mimetype asks for
\* the Deflated method and comes after the entry of its directory, in the
\* order mimetype, META-INF, its files, OEBPS, its files, styles, its files.
C6_CompressedAfterDirectory ==
    /\ \A i \in 2..Len(archive) :
        ~archive[i].is_dir =>
            /\ archive[i].compression_method = "Deflated"
            /\ \E j \in 1..(i - 1) :
                /\ archive[j].is_dir
                /\ archive[j].name = SubSeq(archive[i].name, 1, Len(archive[i].name) - 1)
    /\ \A i \in 1..Len(archive) : Phase(archive[i]) <= 6
    /\ \A i, j \in 1..Len(archive) :
        i < j => Phase(archive[i]) <= Phase(archive[j])

\* C6 witness: the archive of a successful build of two documents
C6_Witness ==
    /\ res = ResOk
    /\ Len(items) = 2
    /\ Cardinality({i \in 1..Len(archive) : Phase(archive[i]) = 4}) = 4
    /\ Cardinality({i \in 1..Len(archive) : Phase(archive[i]) = 6}) = 2

\* C7: a second run of make on the same tree, the target removed, writes
\* the names, the order and the methods of the first run.
C7_PackingDeterministic ==
    \A second \in archive2 : second = archive

\* C8: with save_tmp_files no step of the build removes a file or a
\* directory of the working tree, whether build_core succeeds or fails.
C8_RetentionKeepsTree ==
    [][save_tmp_files =>
         /\ \A p \in DOMAIN files : p # epub_path => p \in DOMAIN files'
         /\ dirs \subseteq dirs']_vars

\* C8 witness: a build with retention failed in the conversion and has
\* returned; the tree it created is there
C8_Witness ==
    /\ Returned
    /\ save_tmp_files
    /\ res = ResErr("convert")
    /\ mimetype_path \in DOMAIN files
    /\ container_path \in DOMAIN files
    /\ vertical_css_path \in DOMAIN files

\* the input path does not exist, or is a file with an extension that is not md
BadInput ==
    \/ source.kind = "missing"
    \/ /\ source.kind = "file"
       /\ Path_extension(source.name) \notin {{}, {<<"md">>}}

\* C9: for such an input the only step is the error return of new: build is
\* not called and no file or directory is created, changed or removed.
C9_BadInputNoBuild ==
    [][BadInput =>
         /\ pc' = "exit"
         /\ res' = ResErr("new")
         /\ files' = files
         /\ dirs' = dirs
         /\ tmp_files' = tmp_files
         /\ archive' = archive]_vars

\* C9 witness: new has rejected a file whose extension is txt
C9_Witness ==
    /\ pc = "exit"
    /\ source.kind = "file"
    /\ Path_extension(source.name) = {<<"txt">>}
    /\ dirs = {}

\* the files of OEBPS that hold a converted document
XhtmlFiles ==
    {p \in FilesIn(files, oebps_path) : files[p] # Empty /\ files[p][1] = "xhtml"}

\* C10: when the conversion of all documents has succeeded, the hrefs of
\* the manifest entries are pairwise distinct and every converted document
\* has its own xhtml file in OEBPS.
C10_HrefsDistinct ==
    pc = "package_opf" =>
        /\ \A i, j \in 1..Len(items) : i # j => items[i].href # items[j].href
        /\ Cardinality(XhtmlFiles) = Len(items)

(***************************************************************************)
(* Claims about RepubBuilder::new (checked under SpecNew).                 *)
(***************************************************************************)
\* RepubBuilder::new has returned Ok
NewOk == pc \notin {"new", "exit", "panicked", "idle"}

\* the value C11 expects of a field: the one supplied, else the trimmed
\* line answering its prompt, the prompts coming in the order title, creator,
\* language and for the omitted fields only
Expected(f) ==
    LET order == <<"title", "creator", "language">>
        at == CHOOSE i \in 1..3 : order[i] = f
        k == Cardinality({i \in 1..at : matches[order[i]] = {}})
    IN IF matches[f] # {}
       THEN CHOOSE x \in matches[f] : TRUE
       ELSE IF k <= Len(stdin.lines) THEN str_trim(stdin.lines[k]) ELSE <<>>

\* C11: once new has returned Ok, the title, the creator and the language of
\* the builder are each the value supplied as an argument, or else the
\* trimmed line entered at its prompt, and the metadata block of package.opf
\* renders these values.
C11_FieldsAsSupplied ==
    NewOk =>
        /\ title = Expected("title")
        /\ creator = Expected("creator")
        /\ language = Expected("language")
        /\ \A m \in metadata :
            /\ m[1].text = Expected("title")
            /\ m[2].text = Expected("language")
            /\ m[3].text = Expected("creator")

\* --toc-level is given and is not the decimal numeral of a level 1..255
InvalidToCLevel ==
    /\ matches.toc_level # {}
    /\ \A l \in matches.toc_level : \A v \in parse_u8(l) : v = 0

\* new got past the input path and every prompt it made was answered
PromptsAnswered ==
    /\ pc # "new"
    /\ ~BadInput
    /\ stdin.read = Cardinality({f \in {"title", "creator", "language"} :
                                    matches[f] = {}})

\* C12: an invalid --toc-level (zero, negative, not a number, beyond 8 bits)
\* never makes new panic or wrap: toc_level is the default 2 and the
\* warning was printed.
C12_InvalidLevelDefaults ==
    (InvalidToCLevel /\ PromptsAnswered) =>
        /\ pc # "panicked"
        /\ toc_level = DefaultToCLevel
        /\ \E i \in 1..Len(stdout) : stdout[i] = "Warning"

(***************************************************************************)
(* Claims about build_core and build as a sequence of steps (checked       *)
(* under SpecBuild).                                                       *)
(***************************************************************************)
\* the name ends in .md
IsMd(n) == Len(n) >= 3 /\ n[Len(n) - 1] = "." /\ n[Len(n)] = "md"

\* the documents of the directory in the order C13 names: an enumeration of
\* exactly the md entries, ascending
DocumentOrders ==
    LET Md == {e \in source.entries : IsMd(e)}
    IN {f \in [1..Cardinality(Md) -> Md] :
            \A i, j \in DOMAIN f : i < j => NameLess(f[i], f[j])}

\* C13: when the loop over a directory has ended without error, the manifest
\* entries and the heading records are those of exactly the md entries of
\* the directory, in ascending order of their names; the other entries
\* left nothing behind and no error.
C13_DirectoryOrder ==
    (pc = "package_opf" /\ source.kind = "dir") =>
        /\ res = ResNone
        /\ \E f \in DocumentOrders :
            /\ Len(items) = Len(f)
            /\ Len(toc_items) = Len(f)
            /\ \A i \in DOMAIN f :
                /\ items[i].href = XhtmlPath(f[i])
                /\ Items_to_manifest(items)[i].id = BookId(i - 1)
                /\ Items_to_manifest(items)[i].href = XhtmlPath(f[i])
                /\ toc_items[i].filename = ConvertName(f[i])
                /\ toc_items[i].title = i

\* C13 witness: the directory holds "a.md" and "a b.md", and "a b.md" was
\* converted first
C13_Witness ==
    /\ pc = "package_opf"
    /\ source.kind = "dir"
    /\ source.entries = {<<"a", ".", "md">>, <<"a", " ", "b", ".", "md">>}
    /\ Len(items) = 2
    /\ items[1].href = <<"a", "_", "b", ".", "xhtml">>
    /\ items[2].href = <<"a", ".", "xhtml">>

\* the place of a step in the order of C14; the loop over the entries is
\* one step with the read of the directory
Position(p) ==
    CASE p = "add_mimetype" -> 1
      [] p = "add_meta_inf" -> 2
      [] p = "add_oebps" -> 3
      [] p = "style" -> 4
      [] p \in {"convert", "convert_loop"} -> 5
      [] p = "package_opf" -> 6
      [] p = "navigation" -> 7
      [] p = "make" -> 8
      [] p = "cleanup" -> 9
      [] p = "done" -> 10
      [] OTHER -> 0

\* some file or directory of the working tree is removed by the step
TreeShrinks ==
    \/ \E q \in DOMAIN files : q # epub_path /\ q \notin DOMAIN files'
    \/ \E d \in dirs : d \notin dirs'

\* C14: every step of a build that does not fail leads to the next step of
\* the order layout, conversion, package.opf, navigation, packing, cleanup,
\* return, the loop taking one entry at a time; a failing step leads to the
\* cleanup; the archive is written by make only, when package.opf and the
\* navigation document exist; the tree shrinks in the cleanup only, after a
\* successful make has completed the archive; and a build without retention
\* that returns Ok leaves the archive and nothing of the tree.
C14_StepOrder ==
    [][/\ (Position(pc) > 0 /\ res'[1] # "Err" /\ pc' # "panicked") =>
            \/ Position(pc') = Position(pc) + 1
            \/ /\ pc = "convert" /\ pc' = "convert_loop"
               /\ entries' # <<>>
            \/ /\ pc = "convert_loop" /\ pc' = "convert_loop"
               /\ entries' = Tail(entries)
       /\ (Position(pc) > 0 /\ res'[1] = "Err") =>
            IF pc = "cleanup" THEN pc' = "done" ELSE pc' = "cleanup"
       /\ archive' # archive =>
            /\ pc = "make"
            /\ package_opf_path \in DOMAIN files
            /\ navigation_path \in DOMAIN files
            /\ files[package_opf_path] # Empty
            /\ files[navigation_path] # Empty
            /\ manifest # {} /\ spine # {} /\ metadata # {}
       /\ TreeShrinks =>
            /\ pc = "cleanup"
            /\ res = ResOk => (archive # <<>> /\ files[epub_path] = NewEpub)
       /\ (pc' = "done" /\ res' = ResOk /\ ~save_tmp_files) =>
            /\ epub_path \in DOMAIN files'
            /\ files'[epub_path] = NewEpub
            /\ archive' # <<>>
            /\ TreeGone']_vars

\* C14 witness: a build of two documents without retention has returned Ok:
\* the archive is there, the tree is not
C14_Witness ==
    /\ pc = "done"
    /\ res = ResOk
    /\ ~save_tmp_files
    /\ Len(items) = 2
    /\ epub_path \in DOMAIN files
    /\ files[epub_path] = NewEpub
    /\ TreeGone

\* the errors the step at p can return
ErrorsOf(p) ==
    CASE p = "convert" -> {"convert", "read_dir"}
      [] p = "convert_loop" -> {"convert"}
      [] OTHER -> {p}

\* C15: the error a step of build_core returns is the error of that step;
\* once there is an error the only step left is the cleanup, which returns
\* that error: no document is converted, no heading record added, no file
\* written, no description rendered and nothing packed after it.
C15_FirstErrorFinal ==
    [][/\ (Position(pc) > 0 /\ res[1] # "Err" /\ res'[1] = "Err") =>
            /\ res'[2] \in ErrorsOf(pc)
            /\ pc' = "cleanup"
       /\ res[1] = "Err" =>
            /\ pc = "cleanup"
            /\ pc' = "done"
            /\ res' = res
            /\ items' = items
            /\ toc_items' = toc_items
            /\ entries' = entries
            /\ archive' = archive
            /\ <<manifest, spine, metadata>>' = <<manifest, spine, metadata>>
            /\ DOMAIN files' \subseteq DOMAIN files
            /\ \A q \in DOMAIN files' : files'[q] = files[q]
            /\ dirs' \subseteq dirs]_vars

\* C15 witness: in a directory of two documents the conversion of the second
\* failed; build has returned that error with retention: one document is
\* converted, package.opf and the navigation document were never written and
\* nothing was packed
C15_Witness ==
    /\ pc = "done"
    /\ res = ResErr("convert")
    /\ save_tmp_files
    /\ source.kind = "dir"
    /\ Len(items) = 1
    /\ package_opf_path \notin DOMAIN files
    /\ navigation_path \notin DOMAIN files
    /\ manifest = {}
    /\ archive = <<>>

(***************************************************************************)
(* Claims about the placement of a heading by ToC::push (checked under     *)
(* SpecToC).  A node is named by its path, the child indices from the      *)
(* root; the open path is the path of last children.                       *)
(***************************************************************************)
\* the paths of the nodes below a node (or below the root)
RECURSIVE PathsOf(_)
PathsOf(node) ==
    UNION {{<<i>>} \cup {<<i>> \o q : q \in PathsOf(node.inner_items[i])} :
            i \in 1..Len(node.inner_items)}

\* the node a path leads to
RECURSIVE At(_, _)
At(node, p) ==
    IF p = <<>> THEN node ELSE At(node.inner_items[Head(p)], Tail(p))

\* the path of last children, from the root to a leaf
RECURSIVE LastPath(_)
LastPath(node) ==
    IF Len(node.inner_items) = 0
    THEN <<>>
    ELSE <<Len(node.inner_items)>> \o LastPath(node.inner_items[Len(node.inner_items)])

\* the heading push is about to place
Pushed == Head(toc_items)

\* a heading arrives that is strictly shallower than every heading before
\* it, and there is one before it
ShallowerThanAll ==
    /\ toc_items # <<>>
    /\ Consumed # <<>>
    /\ \A i \in 1..Len(Consumed) : Pushed.level < Consumed[i].level

RECURSIVE RealLevels(_)
RealLevels(node) ==
    (IF node.is_dummy THEN {} ELSE {node.level})
    \cup UNION {RealLevels(node.inner_items[i]) : i \in 1..Len(node.inner_items)}

Min(S) == CHOOSE x \in S : \A y \in S : x <= y

\* C17: every node of the forest, real or placeholder, has the level of the
\* shallowest real heading in its subtree.
C17_LevelIsShallowest ==
    \A p \in PathsOf(origin) :
        At(origin, p).level = Min(RealLevels(At(origin, p)))

\* the number of placeholders in the subtree of a node (or below the root)
RECURSIVE Placeholders(_)
Placeholders(node) ==
    LET below == [i \in 1..Len(node.inner_items) |->
                    Placeholders(node.inner_items[i])
                    + (IF node.inner_items[i].is_dummy THEN 1 ELSE 0)]
        Sum[i \in 0..Len(below)] == IF i = 0 THEN 0 ELSE Sum[i - 1] + below[i]
    IN Sum[Len(below)]

\* a node but for its children
Shell(node) == [node EXCEPT !.inner_items = <<>>]

\* C18: the push of a heading of level L leaves it as the last node of the
\* open path, at depth L; at each depth below L where a node was open, that
\* node is still the open one; at each depth below L where none was open
\* there is a placeholder (empty title, no anchor) with one child; these are
\* all the placeholders the push has made; and the children of the node
\* open at depth L-1 (the root list for L = 1) are the former ones and then
\* the heading.
C18_PlaceholdersFillGaps ==
    [][toc_items # <<>> =>
         LET L == Pushed.level
             old == LastPath(origin)
             new == LastPath(origin')
             parent == SubSeq(new, 1, L - 1)
         IN /\ Len(new) = L
            /\ At(origin', new) = Pushed
            /\ \A d \in 1..(L - 1) :
                IF d <= Len(old)
                THEN /\ new[d] = old[d]
                     /\ Shell(At(origin', SubSeq(new, 1, d)))
                            = Shell(At(origin, SubSeq(old, 1, d)))
                ELSE /\ new[d] = 1
                     /\ At(origin', SubSeq(new, 1, d)).is_dummy
                     /\ At(origin', SubSeq(new, 1, d)).title = 0
                     /\ At(origin', SubSeq(new, 1, d)).id = {}
                     /\ Len(At(origin', SubSeq(new, 1, d)).inner_items) = 1
            /\ Placeholders(origin') - Placeholders(origin)
                    = (IF L - 1 > Len(old) THEN L - 1 - Len(old) ELSE 0)
            /\ At(origin', parent).inner_items
                    = (IF L - 1 <= Len(old)
                       THEN At(origin, parent).inner_items
                       ELSE <<>>) \o <<Pushed>>]_vars

\* C18 witness: the input [1,4,3] has been built: the push of level 4 made
\* placeholders at depth 2 and 3 below the heading of level 1, and the push
\* of level 3 made none
C18_Witness ==
    /\ ToCBuilt
    /\ headings = HeadingRecords(<<1, 4, 3>>)
    /\ Placeholders(origin) = 2
    /\ ~At(origin, <<1>>).is_dummy
    /\ At(origin, <<1, 1>>).is_dummy
    /\ At(origin, <<1, 1, 1>>).is_dummy
    /\ At(origin, <<1, 1, 1, 1>>) = headings[2]
    /\ At(origin, <<1, 1, 2>>) = headings[3]

\* C19: the push of a heading of level L leaves it as the open node at depth
\* L; every node that was not on the open path, and every node that was
\* open at depth L or deeper, is where it was with its subtree unchanged,
\* and the latter are on the open path no more; so a node once off the open
\* path never gets a child again and the next deeper heading goes below the
\* new node.
C19_ClosedNodesFrozen ==
    [][toc_items # <<>> =>
         LET L == Pushed.level
             old == LastPath(origin)
             new == LastPath(origin')
         IN /\ Len(new) = L
            /\ At(origin', new) = Pushed
            /\ \A p \in PathsOf(origin) :
                (~IsPrefix(p, old) \/ Len(p) >= L) =>
                    /\ p \in PathsOf(origin')
                    /\ At(origin', p) = At(origin, p)
                    /\ ~IsPrefix(p, new)
            /\ \A p \in PathsOf(origin) :
                /\ p \in PathsOf(origin')
                /\ Len(At(origin, p).inner_items) <= Len(At(origin', p).inner_items)
                /\ SubSeq(At(origin', p).inner_items, 1, Len(At(origin, p).inner_items))
                    # At(origin, p).inner_items => IsPrefix(p, new)]_vars

\* C19 witness: the input [2,3,2,3] has been built: the second heading of
\* level 3 is below the second heading of level 2, and the first heading of
\* level 2, closed by the second, has kept its one child
C19_Witness ==
    /\ ToCBuilt
    /\ headings = HeadingRecords(<<2, 3, 2, 3>>)
    /\ At(origin, <<1, 1>>) = [headings[1] EXCEPT !.inner_items = <<headings[2]>>]
    /\ At(origin, <<1, 2>>) = [headings[3] EXCEPT !.inner_items = <<headings[4]>>]

\* the path of the node of the i-th heading
PathOfHeading(i) == CHOOSE p \in PathsOf(origin) : At(origin, p).title = i

\* C20: of two consecutive headings with the same level, both placed, the
\* nodes are children of the same parent (or both in the root list) and the
\* later one is the next sibling of the earlier one.
C20_SameLevelAdjacent ==
    \A i \in 1..(Len(Consumed) - 1) :
        Consumed[i].level = Consumed[i + 1].level =>
            LET p == PathOfHeading(i)
                q == PathOfHeading(i + 1)
            IN /\ Len(p) = Len(q)
               /\ SubSeq(p, 1, Len(p) - 1) = SubSeq(q, 1, Len(q) - 1)
               /\ q[Len(q)] = p[Len(p)] + 1
               /\ At(origin, p) = Consumed[i]
               /\ ~At(origin, q).is_dummy

\* C20 witness: the input [1,3,3,1] has been built: the two headings of
\* level 3 are the first and the second child of one placeholder
C20_Witness ==
    /\ ToCBuilt
    /\ headings = HeadingRecords(<<1, 3, 3, 1>>)
    /\ At(origin, <<1, 1>>).is_dummy
    /\ At(origin, <<1, 1>>).inner_items = <<headings[2], headings[3]>>

(***************************************************************************)
(* Claims about the navigation document (checked under SpecNav).           *)
(***************************************************************************)
\* the li element rendered for the node at path p, in a list of li elements
RECURSIVE LiAt(_, _)
LiAt(li, p) ==
    IF Len(p) = 1
    THEN li[Head(p)]
    ELSE LiAt((CHOOSE o \in li[Head(p)].ol : TRUE).li, Tail(p))

\* the depth C21 names: the value given with --toc-level, 2 when none is given
ConfiguredDepth ==
    IF matches.toc_level = {}
    THEN 2
    ELSE CHOOSE v \in UNION {parse_u8(l) : l \in matches.toc_level} : TRUE

\* C21: when --toc-level is absent or a level 1..255, every node of the
\* forest is rendered as one li element; it has a nested list exactly when
\* the node has a child, that list is hidden exactly when the level of the
\* node is the configured depth or more, and a placeholder has an empty
\* title and its children's list.
C21_HiddenFromConfiguredDepth ==
    ~InvalidToCLevel =>
        \A n \in nav :
            /\ Len(n.li) = Len(origin.inner_items)
            /\ \A p \in PathsOf(origin) :
                LET node == At(origin, p)
                    li == LiAt(n.li, p)
                IN /\ (li.ol # {}) <=> (Len(node.inner_items) >= 1)
                   /\ \A ol \in li.ol :
                        /\ Len(ol.li) = Len(node.inner_items)
                        /\ ol.hidden <=> (node.level >= ConfiguredDepth)
                   /\ node.is_dummy => (li.title.tag = "" /\ li.ol # {})

(***************************************************************************)
(* The forest against its input (checked under SpecToC).                   *)
(***************************************************************************)
\* the real headings below a node (or below the root) in depth-first
\* pre-order, each without its children
RECURSIVE PreOrder(_)
PreOrder(node) ==
    LET of == [i \in 1..Len(node.inner_items) |->
                 (IF node.inner_items[i].is_dummy
                  THEN <<>>
                  ELSE <<Shell(node.inner_items[i])>>)
                 \o PreOrder(node.inner_items[i])]
        Cat[i \in 0..Len(of)] == IF i = 0 THEN <<>> ELSE Cat[i - 1] \o of[i]
    IN Cat[Len(of)]

\* C22: after every push the depth-first pre-order of the forest, the
\* placeholders skipped, is the sequence of the headings pushed so far, and
\* the forest of no heading is empty.
C22_PreOrderIsInput ==
    /\ PreOrder(origin) = Consumed
    /\ Consumed = <<>> => origin = ToC_default

\* C22 witness: the input [2,4,1,3] has been built, with three placeholders
C22_Witness ==
    /\ ToCBuilt
    /\ headings = HeadingRecords(<<2, 4, 1, 3>>)
    /\ Placeholders(origin) = 3
    /\ PreOrder(origin) = headings

(***************************************************************************)
(* The target archive outside of make (checked under SpecBuild).           *)
(***************************************************************************)
\* C23: no step but make creates, changes or removes <title>.epub or writes
\* an entry, the cleanup included, and after an error no step leads to
\* make; so a build that fails before the packing leaves an archive of
\* that name as it was, or absent.
C23_ArchiveUntouchedBeforeMake ==
    [][/\ pc # "make" =>
            /\ (epub_path \in DOMAIN files') <=> (epub_path \in DOMAIN files)
            /\ epub_path \in DOMAIN files => files'[epub_path] = files[epub_path]
            /\ archive' = archive
       /\ res'[1] = "Err" => pc' # "make"
       /\ (pc' = "done" /\ res'[1] = "Err" /\ res'[2] # "make") =>
            /\ archive' = <<>>
            /\ \A q \in DOMAIN files' : q = epub_path => files'[q] = OldEpub]_vars

\* C23 witness: an archive of an earlier build exists, the conversion has
\* failed, build has returned without retention: the tree is gone, the old
\* archive is there
C23_Witness ==
    /\ pc = "done"
    /\ res = ResErr("convert")
    /\ ~save_tmp_files
    /\ TreeGone
    /\ epub_path \in DOMAIN files
    /\ files[epub_path] = OldEpub
    /\ archive = <<>>

====
